---------------------------- MODULE Spec2Model ----------------------------
(***************************************************************************)
(* Model of the outbound request pipeline of the Ollama gateway:           *)
(*   - OllamaService (TypeScript, src/src/app.ts lines 826-1266)           *)
(*   - OllamaService (JavaScript, src/unnamed/part_008)                    *)
(* retryRequest, the chat stream loop, input validation, error             *)
(* translation, countTokens and the context budgeter                       *)
(* (processLongPrompt / processLongMessages / truncateText);               *)
(* and of the routers in front of it (src/src/routes, authenticateApiKey). *)
(***************************************************************************)
EXTENDS Integers, Sequences, FiniteSets, TLC

VARIABLES
    impl,        \* which OllamaService class the instance is: "ts" | "js"
    maxRetries,  \* this.maxRetries (read-only after construction)
    timeout,     \* this.timeout (read-only after construction)
    calls,       \* per call (request) local state: [call id -> record]
    requests     \* HTTP requests on their way through a router's middleware

vars == <<impl, maxRetries, timeout, calls, requests>>

(***************************************************************************)
(* Bounds of the model.                                                    *)
(***************************************************************************)
MaxRetriesBound == 3
MaxLines == 2
MaxMessages == 4

(***************************************************************************)
(* Small helpers on sequences (strings are sequences of 1-char strings).   *)
(***************************************************************************)
\* String.prototype.indexOf(ch): 0-based index of the first ch, -1 if none.
indexOf(s, ch) ==
    IF \E i \in 1..Len(s) : s[i] = ch
    THEN (CHOOSE i \in 1..Len(s) : s[i] = ch /\ \A j \in 1..(i-1) : s[j] # ch) - 1
    ELSE -1

\* String.prototype.substring(from, to) with 0-based, end-exclusive indices;
\* arguments are clamped to [0, length] and swapped when from > to.
Clamp(n, len) == IF n < 0 THEN 0 ELSE IF n > len THEN len ELSE n
substring(s, from, to) ==
    LET a == Clamp(from, Len(s))
        b == Clamp(to, Len(s))
        lo == IF a <= b THEN a ELSE b
        hi == IF a <= b THEN b ELSE a
    IN  SubSeq(s, lo + 1, hi)

\* String.prototype.includes at word granularity: messages are word lists.
includes(msg, word) == \E i \in 1..Len(msg) : msg[i] = word

(***************************************************************************)
(* Errors.  Every error value has the same shape:                          *)
(*   cls    : "AxiosError" | "TypeError" | "SyntaxError" | "Error" |       *)
(*            "AppError" | "TimeoutError" | "ExternalServiceError"         *)
(*   code   : error.code                                                   *)
(*   msg    : error.message as a list of words                             *)
(*   status : statusCode of an AppError (0 when the class has none)        *)
(*   corr   : correlationId of an AppError (0 when the class has none)     *)
(*   at     : identity of the raw error: the invocation that produced it   *)
(*   tmo    : TimeoutError.timeout (0 otherwise)                           *)
(*   resp   : error.response is set (the backend answered with a status)   *)
(*   req    : error.request is set                                         *)
(*   cause  : the attempt whose raw error was wrapped (0 when none)        *)
(*   service: ExternalServiceError.service ("" otherwise)                  *)
(***************************************************************************)
Err(cls, code, msg, status, corr, at, tmo, resp, req, cause) ==
    [cls |-> cls, code |-> code, msg |-> msg, status |-> status, corr |-> corr,
     at |-> at, tmo |-> tmo, resp |-> resp, req |-> req, cause |-> cause,
     service |-> ""]

NoError == Err("none", "", <<>>, 0, 0, 0, 0, FALSE, FALSE, 0)

\* What a backend request (axios) can fail with, raised by invocation `at`.
AxiosTimeout(at) ==
    Err("AxiosError", "ECONNABORTED", <<"timeout", "of", "ms", "exceeded">>,
        0, 0, at, 0, FALSE, TRUE, 0)
SocketTimeout(at) ==
    Err("AxiosError", "ETIMEDOUT", <<"connect", "ETIMEDOUT">>,
        0, 0, at, 0, FALSE, TRUE, 0)
ConnRefused(at) ==
    Err("AxiosError", "ECONNREFUSED", <<"connect", "ECONNREFUSED">>,
        0, 0, at, 0, FALSE, TRUE, 0)
HttpError(at) ==
    Err("AxiosError", "ERR_BAD_RESPONSE",
        <<"Request", "failed", "with", "status", "code", "500">>,
        0, 0, at, 0, TRUE, TRUE, 0)

RequestFailures(at) ==
    {AxiosTimeout(at), SocketTimeout(at), ConnRefused(at), HttpError(at)}

\* errors.lib: class hierarchy below AppError.
AppErrorClasses == {"AppError", "TimeoutError", "ExternalServiceError"}
IsAppError(e) == e.cls \in AppErrorClasses

\* new AppError(message, statusCode, code, correlationId)
AppError(msg, status, code, corr) ==
    Err("AppError", code, msg, status, corr, 0, 0, FALSE, FALSE, 0)

\* (variant: the correlation id is not passed on)
TimeoutErrorNoCorrelation(msg, corr, tmo) ==
    Err("TimeoutError", "TIMEOUT_ERROR", msg, 408, 0, 0, tmo, FALSE, FALSE, 0)

\* new TimeoutError(message, correlationId, timeout): AppError 408 TIMEOUT_ERROR
TimeoutError(msg, corr, tmo) ==
    Err("TimeoutError", "TIMEOUT_ERROR", msg, 408, corr, 0, tmo, FALSE, FALSE, 0)

\* new ExternalServiceError(message, correlationId, service, originalError):
\* AppError 502 EXTERNAL_SERVICE_ERROR; message gets the original's appended.
ExternalServiceError(msg, corr, service, original) ==
    [Err("ExternalServiceError", "EXTERNAL_SERVICE_ERROR",
         msg \o original.msg, 502, corr, 0, 0, FALSE, FALSE, original.at)
     EXCEPT !.service = service]

(***************************************************************************)
(* Long texts.  A text handled by the context budgeter is kept run-length  *)
(* encoded: a sequence of runs <<ch, n>> (n >= 1 copies of character ch),  *)
(* adjacent runs holding different characters, so that equal texts have    *)
(* equal encodings.  NL is the newline character.                          *)
(***************************************************************************)
NL == "\n"
IsSpace(ch) == ch \in {" ", NL}

\* text.length
RECURSIVE RLen(_)
RLen(s) ==
    IF s = <<>> THEN 0
    ELSE IF Len(s) = 1 THEN s[1][2]
    ELSE LET h == Len(s) \div 2
         IN  RLen(SubSeq(s, 1, h)) + RLen(SubSeq(s, h + 1, Len(s)))

\* a + b on texts: the runs that meet are merged when they hold the same
\* character.
RConcat(a, b) ==
    IF a = <<>> THEN b
    ELSE IF b = <<>> THEN a
    ELSE IF a[Len(a)][1] = b[1][1]
    THEN SubSeq(a, 1, Len(a) - 1) \o <<<<b[1][1], a[Len(a)][2] + b[1][2]>>>> \o Tail(b)
    ELSE a \o b

\* the first k characters / all but the first k characters
RTake(s, k) ==
    IF k <= 0 THEN <<>>
    ELSE IF k >= RLen(s) THEN s
    ELSE LET j == CHOOSE i \in 1..Len(s) :
                      RLen(SubSeq(s, 1, i - 1)) < k /\ k <= RLen(SubSeq(s, 1, i))
         IN  SubSeq(s, 1, j - 1) \o <<<<s[j][1], k - RLen(SubSeq(s, 1, j - 1))>>>>

RDrop(s, k) ==
    IF k <= 0 THEN s
    ELSE IF k >= RLen(s) THEN <<>>
    ELSE LET j == CHOOSE i \in 1..Len(s) :
                      RLen(SubSeq(s, 1, i - 1)) <= k /\ k < RLen(SubSeq(s, 1, i))
         IN  <<<<s[j][1], RLen(SubSeq(s, 1, j)) - k>>>> \o SubSeq(s, j + 1, Len(s))

\* text.substring(from, to): arguments clamped to [0, length], swapped when
\* from > to (String.prototype.substring).
RSub(s, from, to) ==
    LET a == Clamp(from, RLen(s))
        b == Clamp(to, RLen(s))
        lo == IF a <= b THEN a ELSE b
        hi == IF a <= b THEN b ELSE a
    IN  RDrop(RTake(s, hi), lo)

\* text.substring(from): to the end of the text
RSubFrom(s, from) == RSub(s, from, RLen(s))

\* text.split(/\s+/).filter(word => word.length > 0).length: the number of
\* maximal groups of non-whitespace characters, counted at their first run.
RWords(s) ==
    Cardinality({i \in 1..Len(s) :
                    /\ ~IsSpace(s[i][1])
                    /\ (i = 1 \/ IsSpace(s[i - 1][1]))})

\* Math.ceil(words * 1.3 + chars * 0.25), in twentieths.
TokenEstimate(words, chars) == (26 * words + 5 * chars + 19) \div 20

\* countTokens(input) for a string
countTokens(text) == TokenEstimate(RWords(text), RLen(text))

\* countTokens(input) for an array of messages: the sum over message.content
RECURSIVE countTokensMessages(_)
countTokensMessages(messages) ==
    IF messages = <<>> THEN 0
    ELSE countTokens(Head(messages).content) + countTokensMessages(Tail(messages))

(***************************************************************************)
(* The backend's streamed reply: newline-delimited JSON.  A stream text is *)
(* an explicit string over                                                 *)
(*   "{"  the opening  {"message":{"content":"                             *)
(*   "a"  a character of the content                                       *)
(*   "}"  the closing  "}}                                                 *)
(*   "d"  a complete object without message, such as {"done":true}        *)
(*   NL   the line separator                                               *)
(***************************************************************************)
ContentChars == {"a", "b"}

\* JSON.parse(jsonStr) and what the loop reads of it: ok = FALSE is the
\* SyntaxError JSON.parse throws.
JSONparse(line) ==
    IF Len(line) >= 2 /\ line[1] = "{" /\ line[Len(line)] = "}"
       /\ \A i \in 2..(Len(line) - 1) : line[i] \in ContentChars
    THEN [ok |-> TRUE, hasMessage |-> TRUE, content |-> SubSeq(line, 2, Len(line) - 1)]
    ELSE IF line = <<"d">>
    THEN [ok |-> TRUE, hasMessage |-> FALSE, content |-> <<>>]
    ELSE [ok |-> FALSE, hasMessage |-> FALSE, content |-> <<>>]

\* (variant: the buffer is replaced by the chunk, losing the partial line)
ReplaceByChunk(buffer, chunk) == chunk

\* buffer += chunk.toString()
AppendChunk(buffer, chunk) == buffer \o chunk

\* The inner while loop of the stream loop: consume every complete line of
\* the buffer.  threw = TRUE when JSON.parse threw on a line.
RECURSIVE DrainLines(_, _)
DrainLines(buffer, fullContent) ==
    LET boundary == indexOf(buffer, NL)
    IN  IF boundary = -1
        THEN [buffer |-> buffer, fullContent |-> fullContent, threw |-> FALSE]
        ELSE LET jsonStr == substring(buffer, 0, boundary)
                 rest == substring(buffer, boundary + 1, Len(buffer))
                 parsed == JSONparse(jsonStr)
             IN  IF jsonStr # <<>> /\ ~parsed.ok
                 THEN [buffer |-> rest, fullContent |-> fullContent, threw |-> TRUE]
                 ELSE IF jsonStr # <<>> /\ parsed.hasMessage /\ parsed.content # <<>>
                 THEN DrainLines(rest, fullContent \o parsed.content)
                 ELSE DrainLines(rest, fullContent)

\* One iteration of `for await (const chunk of response.data)`.
ConsumeChunk(buffer, fullContent, chunk) ==
    DrainLines(AppendChunk(buffer, chunk), fullContent)

(***************************************************************************)
(* retryRequest.                                                           *)
(***************************************************************************)
\* (variant: the ETIMEDOUT signature forgotten)
isTimeoutErrorNoSocket(error) ==
    \/ error.code = "ECONNABORTED"
    \/ includes(error.msg, "timeout")

\* isTimeoutError (TypeScript service)
isTimeoutError(error) ==
    \/ error.code = "ECONNABORTED"
    \/ includes(error.msg, "timeout")
    \/ includes(error.msg, "ETIMEDOUT")

RECURSIVE Pow(_, _)
Pow(b, e) == IF e <= 0 THEN 1 ELSE b * Pow(b, e - 1)

Min(a, b) == IF a <= b THEN a ELSE b

\* (variant: the delay doubles without a cap)
BackoffDelayUncapped(attempt) == 1000 * Pow(2, attempt - 1)

\* delay = Math.min(1000 * Math.pow(2, attempt - 1), 10000)
BackoffDelay(attempt) == Min(1000 * Pow(2, attempt - 1), 10000)

\* progressiveTimeout = this.timeout * Math.pow(1.5, attempt - 1), kept as the
\* fraction <<numerator, denominator>>.
ProgressiveTimeout(base, attempt) == <<base * Pow(3, attempt - 1), Pow(2, attempt - 1)>>

\* The catch block of one attempt: what retryRequest does after attempt
\* `attempt` of `max` failed with `error`.
\*   "retry"  sleep BackoffDelay(attempt), then the next attempt
\*   "throw"  retryRequest fails with `err`
\* (variant: the last attempt's failure always reported as a timeout)
AfterFailureTsAlwaysTimeout(error, attempt, max, corr, base) ==
    IF attempt = max
    THEN [do |-> "throw",
          err |-> TimeoutError(<<"Request", "timeout", "after", "attempts">>, corr, base)]
    ELSE [do |-> "retry", err |-> error]

\* (variant: a failure that carries a backend response is not retried)
AfterFailureTsNoRetryOnResponse(error, attempt, max, corr, base) ==
    IF attempt = max \/ error.resp
    THEN IF isTimeoutError(error)
         THEN [do |-> "throw",
               err |-> TimeoutError(<<"Request", "timeout", "after", "attempts">>, corr, base)]
         ELSE [do |-> "throw", err |-> error]
    ELSE [do |-> "retry", err |-> error]

AfterFailureTs(error, attempt, max, corr, base) ==
    IF attempt = max
    THEN IF isTimeoutError(error)
         THEN [do |-> "throw",
               err |-> TimeoutError(<<"Request", "timeout", "after", "attempts">>, corr, base)]
         ELSE [do |-> "throw", err |-> error]
    ELSE [do |-> "retry", err |-> error]

AfterFailureJs(error, attempt, max, corr, base) ==
    IF attempt = max
    THEN [do |-> "throw", err |-> error]
    ELSE [do |-> "retry", err |-> error]

AfterFailure(error, attempt, max, corr, base) ==
    IF impl = "ts" THEN AfterFailureTs(error, attempt, max, corr, base)
    ELSE AfterFailureJs(error, attempt, max, corr, base)

(***************************************************************************)
(* The context budgeter (JavaScript service).                              *)
(***************************************************************************)
\* contextLimits[model] || contextLimits.default
contextLimits(model) ==
    CASE model = "llama2" -> 4096
      [] model = "llama3" -> 8192
      [] model = "gemma" -> 8192
      [] model = "gemma2" -> 8192
      [] model = "gemma3" -> 8192
      [] model = "mistral" -> 8192
      [] model = "codellama" -> 16384
      [] model = "phi" -> 2048
      [] OTHER -> 4096

\* (variant: half of the context kept for the input instead of 70%)
MaxTokensHalf(model) == (contextLimits(model) * 5) \div 10

\* Math.floor(contextLimit * 0.7)
MaxTokens(model) == (contextLimits(model) * 7) \div 10

\* '\n\n[... content truncated due to length ...]\n\n'
PromptMarker ==
    <<<<NL, 2>>, <<"[", 1>>, <<".", 3>>, <<" ", 1>>, <<"c", 1>>,
      <<"o", 1>>, <<"n", 1>>, <<"t", 1>>, <<"e", 1>>, <<"n", 1>>,
      <<"t", 1>>, <<" ", 1>>, <<"t", 1>>, <<"r", 1>>, <<"u", 1>>,
      <<"n", 1>>, <<"c", 1>>, <<"a", 1>>, <<"t", 1>>, <<"e", 1>>,
      <<"d", 1>>, <<" ", 1>>, <<"d", 1>>, <<"u", 1>>, <<"e", 1>>,
      <<" ", 1>>, <<"t", 1>>, <<"o", 1>>, <<" ", 1>>, <<"l", 1>>,
      <<"e", 1>>, <<"n", 1>>, <<"g", 1>>, <<"t", 1>>, <<"h", 1>>,
      <<" ", 1>>, <<".", 3>>, <<"]", 1>>, <<NL, 2>>>>

\* '\n[... truncated ...]\n'
TruncateMarker ==
    <<<<NL, 1>>, <<"[", 1>>, <<".", 3>>, <<" ", 1>>, <<"t", 1>>,
      <<"r", 1>>, <<"u", 1>>, <<"n", 1>>, <<"c", 1>>, <<"a", 1>>,
      <<"t", 1>>, <<"e", 1>>, <<"d", 1>>, <<" ", 1>>, <<".", 3>>,
      <<"]", 1>>, <<NL, 1>>>>

\* '\n[... message truncated due to length ...]'
MessageMarker ==
    <<<<NL, 1>>, <<"[", 1>>, <<".", 3>>, <<" ", 1>>, <<"m", 1>>,
      <<"e", 1>>, <<"s", 2>>, <<"a", 1>>, <<"g", 1>>, <<"e", 1>>,
      <<" ", 1>>, <<"t", 1>>, <<"r", 1>>, <<"u", 1>>, <<"n", 1>>,
      <<"c", 1>>, <<"a", 1>>, <<"t", 1>>, <<"e", 1>>, <<"d", 1>>,
      <<" ", 1>>, <<"d", 1>>, <<"u", 1>>, <<"e", 1>>, <<" ", 1>>,
      <<"t", 1>>, <<"o", 1>>, <<" ", 1>>, <<"l", 1>>, <<"e", 1>>,
      <<"n", 1>>, <<"g", 1>>, <<"t", 1>>, <<"h", 1>>, <<" ", 1>>,
      <<".", 3>>, <<"]", 1>>>>

\* truncateText(text, maxChars)
truncateText(text, maxChars) ==
    IF RLen(text) <= maxChars THEN text
    ELSE LET startChars == (maxChars * 8) \div 10
             endChars == maxChars - startChars - 50
         IN  RConcat(RConcat(RSub(text, 0, startChars), TruncateMarker),
                     RSubFrom(text, RLen(text) - endChars))

\* (variant: the end of the prompt is not kept)
processLongPromptNoTail(prompt, model) ==
    LET maxPromptTokens == MaxTokens(model)
        maxChars == maxPromptTokens * 4
        truncationPoint == (maxChars * 8) \div 10
    IN  IF countTokens(prompt) <= maxPromptTokens THEN prompt
        ELSE IF RLen(prompt) <= maxChars THEN prompt
        ELSE RConcat(RSub(prompt, 0, truncationPoint), PromptMarker)

\* processLongPrompt(prompt, model)
processLongPrompt(prompt, model) ==
    LET maxPromptTokens == MaxTokens(model)
        currentTokens == countTokens(prompt)
        maxChars == maxPromptTokens * 4
        truncationPoint == (maxChars * 8) \div 10
        endPoint == maxChars - truncationPoint - 100
    IN  IF currentTokens <= maxPromptTokens THEN prompt
        ELSE IF RLen(prompt) <= maxChars THEN prompt
        ELSE RConcat(RConcat(RSub(prompt, 0, truncationPoint), PromptMarker),
                     RSubFrom(prompt, RLen(prompt) - endPoint))

\* messages.filter(msg => msg.role === 'system') and its complement
RECURSIVE FilterSystem(_, _)
FilterSystem(messages, keepSystem) ==
    IF messages = <<>> THEN <<>>
    ELSE IF (Head(messages).role = "system") = keepSystem
         THEN <<Head(messages)>> \o FilterSystem(Tail(messages), keepSystem)
         ELSE FilterSystem(Tail(messages), keepSystem)

\* (variant: every non-system message is a candidate)
LastAll(messages) == messages

\* (variant: the last three, newest first)
LastThreeNewestFirst(messages) ==
    LET n == IF Len(messages) <= 3 THEN Len(messages) ELSE 3
    IN  [i \in 1..n |-> messages[Len(messages) + 1 - i]]

\* nonSystemMessages.slice(-3)
LastThree(messages) ==
    IF Len(messages) <= 3 THEN messages
    ELSE SubSeq(messages, Len(messages) - 2, Len(messages))

\* The loop `for (const message of recentMessages)`: the messages it pushes.
RECURSIVE PushRecent(_, _)
PushRecent(recentMessages, remainingTokens) ==
    IF recentMessages = <<>> THEN <<>>
    ELSE LET message == Head(recentMessages)
             messageTokens == countTokens(message.content)
         IN  IF messageTokens <= remainingTokens
             THEN <<message>> \o PushRecent(Tail(recentMessages),
                                            remainingTokens - messageTokens)
             ELSE <<[message EXCEPT !.content =
                        RConcat(truncateText(message.content, remainingTokens * 4),
                                MessageMarker)]>>

\* processLongMessages(messages, model)
processLongMessages(messages, model) ==
    LET maxMessageTokens == MaxTokens(model)
        currentTokens == countTokensMessages(messages)
        systemMessages == FilterSystem(messages, TRUE)
        nonSystemMessages == FilterSystem(messages, FALSE)
        recentMessages == LastThree(nonSystemMessages)
        remainingTokens == maxMessageTokens - countTokensMessages(systemMessages)
    IN  IF currentTokens <= maxMessageTokens THEN messages
        ELSE systemMessages \o PushRecent(recentMessages, remainingTokens)

(***************************************************************************)
(* Error translation of the completion methods.                            *)
(***************************************************************************)
\* The catch block of the TypeScript generateChatCompletion /
\* generateTextCompletion / listModels.
\* (variant: every error is wrapped)
TranslateErrorTsAlwaysWrap(error, corr, label) ==
    ExternalServiceError(label, corr, "Ollama", error)

TranslateErrorTs(error, corr, label) ==
    IF IsAppError(error) THEN error
    ELSE ExternalServiceError(label, corr, "Ollama", error)

\* handleError(error) of the JavaScript service
handleError(error) ==
    IF error.resp
    THEN Err("Error", "", <<"Ollama", "API", "Error">> \o error.msg,
             0, 0, 0, 0, FALSE, FALSE, error.at)
    ELSE IF error.req
    THEN Err("Error", "", <<"Ollama", "server", "is", "unreachable">>,
             0, 0, 0, 0, FALSE, FALSE, error.at)
    ELSE Err("Error", "", <<"Request", "setup", "error">> \o error.msg,
             0, 0, 0, 0, FALSE, FALSE, error.at)

TranslateError(error, corr, label) ==
    IF impl = "ts" THEN TranslateErrorTs(error, corr, label) ELSE handleError(error)

FailureLabel(kind) ==
    CASE kind = "chat" -> <<"Chat", "completion", "failed">>
      [] kind = "text" -> <<"Text", "completion", "failed">>
      [] OTHER -> <<"Failed", "to", "list", "models">>

(***************************************************************************)
(* Calls.                                                                  *)
(***************************************************************************)
Absent == [present |-> FALSE, val |-> <<>>]
Present(v) == [present |-> TRUE, val |-> v]

NoRequest == [sent |-> FALSE, messages |-> <<>>, prompt |-> <<>>, stream |-> FALSE]
NoUsage == [prompt_tokens |-> 0, completion_tokens |-> 0, total_tokens |-> 0]
NoOutcome == [type |-> "none", err |-> NoError, content |-> <<>>, usage |-> NoUsage]
NoRetry == [type |-> "none", err |-> NoError]

\* A call that has been made and not yet started to run.
NewCall(kind, model, messages, prompt, streamFlag, corr) ==
    [kind |-> kind, model |-> model, messages |-> messages, prompt |-> prompt,
     streamFlag |-> streamFlag, corr |-> corr,
     pc |-> "init", attempt |-> 0, invocations |-> 0, inflight |-> 0,
     successes |-> 0,
     lastError |-> NoError, errors |-> <<>>, delays |-> <<>>, tmos |-> <<>>,
     request |-> NoRequest, retry |-> NoRetry,
     reply |-> <<>>, stream |-> <<>>, buffer |-> <<>>, fullContent |-> <<>>,
     outcome |-> NoOutcome, cancelledAt |-> 0]

Usage(promptTokens, completionTokens) ==
    [prompt_tokens |-> promptTokens, completion_tokens |-> completionTokens,
     total_tokens |-> promptTokens + completionTokens]

Failed(call, error) ==
    [call EXCEPT !.pc = "done",
                 !.outcome = [NoOutcome EXCEPT !.type = "error", !.err = error]]

Returned(call, content, usage) ==
    [call EXCEPT !.pc = "done",
                 !.outcome = [type |-> "ok", err |-> NoError,
                              content |-> content, usage |-> usage]]

TypeErr == Err("TypeError", "", <<"Cannot", "read", "properties", "of", "undefined">>,
               0, 0, 0, 0, FALSE, FALSE, 0)
SyntaxErr == Err("SyntaxError", "", <<"Unexpected", "token", "in", "JSON">>,
                 0, 0, 0, 0, FALSE, FALSE, 0)
StreamErr == Err("Error", "ECONNRESET", <<"aborted">>, 0, 0, 0, 0, FALSE, FALSE, 0)

\* (variant: the estimate of what was sent instead of what was given)
PromptTokensOfRequest(call) ==
    IF call.kind = "chat" THEN countTokensMessages(call.request.messages)
    ELSE countTokens(call.request.prompt)

\* The input of a call as countTokens reads it.
PromptTokens(call) ==
    IF call.kind = "chat" THEN countTokensMessages(call.messages.val)
    ELSE countTokens(call.prompt.val)

\* From the entry of generateChatCompletion / generateTextCompletion /
\* listModels to the call of retryRequest (TypeScript service).
BeginTs(call) ==
    CASE call.kind = "chat" ->
           IF ~call.messages.present
           THEN \* params.messages.length in the first log call throws
                Failed(call, TranslateErrorTs(TypeErr, call.corr, FailureLabel("chat")))
           ELSE IF call.messages.val = <<>>
           THEN Failed(call, TranslateErrorTs(
                    AppError(<<"Messages", "array", "is", "required">>, 400,
                             "VALIDATION_ERROR", call.corr),
                    call.corr, FailureLabel("chat")))
           ELSE [call EXCEPT !.pc = "attempt", !.attempt = 1,
                             !.request = [sent |-> FALSE, messages |-> call.messages.val,
                                          prompt |-> <<>>, stream |-> TRUE]]
      [] call.kind = "text" ->
           IF ~call.prompt.present
           THEN \* params.prompt.length in the first log call throws
                Failed(call, TranslateErrorTs(TypeErr, call.corr, FailureLabel("text")))
           ELSE IF call.prompt.val = <<>>
           THEN Failed(call, TranslateErrorTs(
                    AppError(<<"Prompt", "is", "required">>, 400,
                             "VALIDATION_ERROR", call.corr),
                    call.corr, FailureLabel("text")))
           ELSE [call EXCEPT !.pc = "attempt", !.attempt = 1,
                             !.request = [sent |-> FALSE, messages |-> <<>>,
                                          prompt |-> call.prompt.val,
                                          stream |-> call.streamFlag]]
      [] OTHER -> [call EXCEPT !.pc = "attempt", !.attempt = 1]

\* The same stretch of the JavaScript service: validation outside any try,
\* then the context budgeter.
BeginJs(call) ==
    CASE call.kind = "chat" ->
           IF ~call.messages.present \/ call.messages.val = <<>>
           THEN Failed(call, Err("Error", "", <<"Messages", "array", "is", "required">>,
                                 0, 0, 0, 0, FALSE, FALSE, 0))
           ELSE [call EXCEPT !.pc = "attempt", !.attempt = 1,
                             !.request = [sent |-> FALSE,
                                          messages |-> processLongMessages(
                                                         call.messages.val, call.model),
                                          prompt |-> <<>>, stream |-> call.streamFlag]]
      [] call.kind = "text" ->
           IF ~call.prompt.present \/ call.prompt.val = <<>>
           THEN Failed(call, Err("Error", "", <<"Prompt", "is", "required">>,
                                 0, 0, 0, 0, FALSE, FALSE, 0))
           ELSE [call EXCEPT !.pc = "attempt", !.attempt = 1,
                             !.request = [sent |-> FALSE, messages |-> <<>>,
                                          prompt |-> processLongPrompt(
                                                       call.prompt.val, call.model),
                                          stream |-> call.streamFlag]]
      [] OTHER -> [call EXCEPT !.pc = "attempt", !.attempt = 1]

Begin(c) ==
    /\ calls[c].pc = "init"
    /\ calls' = [calls EXCEPT ![c] = IF impl = "ts" THEN BeginTs(@) ELSE BeginJs(@)]
    /\ UNCHANGED <<impl, maxRetries, timeout, requests>>

\* The timeout attempt `attempt` is issued with.  The TypeScript chat and
\* text request functions pass retryRequest's options on to axios; the
\* model-listing one and every JavaScript one take no options, so axios uses
\* the client's timeout.
IssuedTimeout(call) ==
    IF impl = "ts" /\ call.kind \in {"chat", "text"}
    THEN ProgressiveTimeout(timeout, call.attempt)
    ELSE <<timeout, 1>>

\* (variant: the next attempt may go out while one is still in flight)
InvokeWhileInflight(c) ==
    /\ calls[c].pc \in {"attempt", "inflight"}
    /\ calls[c].invocations < maxRetries
    /\ calls' = [calls EXCEPT ![c] =
                   [@ EXCEPT !.pc = "inflight",
                             !.attempt = calls[c].invocations + 1,
                             !.invocations = @ + 1,
                             !.inflight = @ + 1,
                             !.tmos = Append(@, IssuedTimeout(calls[c])),
                             !.request = [@ EXCEPT !.sent = TRUE]]]
    /\ UNCHANGED <<impl, maxRetries, timeout, requests>>

\* The loop head and `await requestFn(...)`: attempt number call.attempt
\* goes out.
Invoke(c) ==
    /\ calls[c].pc = "attempt"
    /\ calls[c].attempt <= maxRetries
    /\ calls' = [calls EXCEPT ![c] =
                   [@ EXCEPT !.pc = "inflight",
                             !.invocations = @ + 1,
                             !.inflight = @ + 1,
                             !.tmos = Append(@, IssuedTimeout(calls[c])),
                             !.request = [@ EXCEPT !.sent = TRUE]]]
    /\ UNCHANGED <<impl, maxRetries, timeout, requests>>

\* `return await requestFn(...)` succeeds and the reply is a stream
\* (TypeScript chat: responseType 'stream'): retryRequest returns, the stream
\* loop starts with empty buffer and content.
SucceedStream(c, text) ==
    /\ calls[c].pc = "inflight"
    /\ impl = "ts" /\ calls[c].kind = "chat"
    /\ calls' = [calls EXCEPT ![c] =
                   [@ EXCEPT !.pc = "stream", !.inflight = @ - 1,
                             !.successes = @ + 1,
                             !.retry = [type |-> "returned", err |-> NoError],
                             !.reply = text, !.stream = text,
                             !.buffer = <<>>, !.fullContent = <<>>]]
    /\ UNCHANGED <<impl, maxRetries, timeout, requests>>

\* response.data.response?.length || 0, response.data.message?.content?.length || 0
ContentLength(content) == IF content.present THEN Len(content.val) ELSE 0

\* `return await requestFn(...)` succeeds with a whole JSON body: the
\* completion method returns its result.  `content` is response.data.response
\* (text) or response.data.message?.content (chat), possibly missing.
SucceedPlain(c, content) ==
    /\ calls[c].pc = "inflight"
    /\ ~(impl = "ts" /\ calls[c].kind = "chat")
    /\ calls' = [calls EXCEPT ![c] =
                   LET call == [@ EXCEPT !.inflight = @ - 1,
                                         !.successes = @ + 1,
                                         !.retry = [type |-> "returned", err |-> NoError]]
                   IN  IF call.kind = "list" THEN Returned(call, <<>>, NoUsage)
                       ELSE Returned(call, content.val,
                                     Usage(PromptTokens(call), ContentLength(content)))]
    /\ UNCHANGED <<impl, maxRetries, timeout, requests>>

\* `await requestFn(...)` fails with `error`: the catch block of retryRequest
\* and, when retryRequest throws, the catch block of the completion method.
Fail(c, error) ==
    /\ calls[c].pc = "inflight"
    /\ LET call == calls[c]
           r == AfterFailure(error, call.attempt, maxRetries, call.corr, timeout)
           seen == [call EXCEPT !.inflight = @ - 1, !.lastError = error,
                                !.errors = Append(@, error)]
       IN  calls' = [calls EXCEPT ![c] =
              IF r.do = "retry"
              THEN [seen EXCEPT !.pc = "sleep",
                                !.delays = Append(@, BackoffDelay(call.attempt))]
              ELSE Failed([seen EXCEPT !.retry = [type |-> "threw", err |-> r.err]],
                          TranslateError(r.err, call.corr, FailureLabel(call.kind)))]
    /\ UNCHANGED <<impl, maxRetries, timeout, requests>>

\* (variant: the loop counter is not advanced)
WakeNoIncrement(c) ==
    /\ calls[c].pc = "sleep"
    /\ calls' = [calls EXCEPT ![c] = [@ EXCEPT !.pc = "attempt"]]
    /\ UNCHANGED <<impl, maxRetries, timeout, requests>>

\* The backoff timer fires: attempt++ and back to the loop head.
Wake(c) ==
    /\ calls[c].pc = "sleep"
    /\ calls' = [calls EXCEPT ![c] = [@ EXCEPT !.pc = "attempt", !.attempt = @ + 1]]
    /\ UNCHANGED <<impl, maxRetries, timeout, requests>>

\* (variant: `buffer` is one variable shared by all calls of the instance)
StreamChunkSharedBuffer(c, n) ==
    /\ calls[c].pc = "stream"
    /\ n \in 1..Len(calls[c].stream)
    /\ LET call == calls[c]
           chunk == SubSeq(call.stream, 1, n)
           r == ConsumeChunk(call.buffer, call.fullContent, chunk)
           after == [call EXCEPT !.stream = SubSeq(@, n + 1, Len(@)),
                                 !.buffer = r.buffer, !.fullContent = r.fullContent]
       IN  calls' = [x \in DOMAIN calls |->
              IF x # c THEN [calls[x] EXCEPT !.buffer = r.buffer]
              ELSE IF r.threw
              THEN Failed(after, TranslateErrorTs(SyntaxErr, call.corr, FailureLabel("chat")))
              ELSE after]
    /\ UNCHANGED <<impl, maxRetries, timeout, requests>>

\* One chunk of n characters arrives: one iteration of the stream loop.  A
\* SyntaxError of JSON.parse leaves through the catch block.
StreamChunk(c, n) ==
    /\ calls[c].pc = "stream"
    /\ n \in 1..Len(calls[c].stream)
    /\ LET call == calls[c]
           chunk == SubSeq(call.stream, 1, n)
           r == ConsumeChunk(call.buffer, call.fullContent, chunk)
           after == [call EXCEPT !.stream = SubSeq(@, n + 1, Len(@)),
                                 !.buffer = r.buffer, !.fullContent = r.fullContent]
       IN  calls' = [calls EXCEPT ![c] =
              IF r.threw
              THEN Failed(after, TranslateErrorTs(SyntaxErr, call.corr, FailureLabel("chat")))
              ELSE after]
    /\ UNCHANGED <<impl, maxRetries, timeout, requests>>

\* The stream ends: the loop is left and the result returned.
StreamEnd(c) ==
    /\ calls[c].pc = "stream"
    /\ calls[c].stream = <<>>
    /\ calls' = [calls EXCEPT ![c] =
                   Returned(@, @.fullContent,
                            Usage(PromptTokens(@), Len(@.fullContent)))]
    /\ UNCHANGED <<impl, maxRetries, timeout, requests>>

\* (variant: a broken stream ends the loop with what was accumulated)
StreamFailReturnsPartial(c) ==
    /\ calls[c].pc = "stream"
    /\ calls[c].stream # <<>>
    /\ calls' = [calls EXCEPT ![c] =
                   Returned(@, @.fullContent,
                            Usage(PromptTokens(@), Len(@.fullContent)))]
    /\ UNCHANGED <<impl, maxRetries, timeout, requests>>

\* The stream breaks before its end: the iterator throws inside the loop.
StreamFail(c) ==
    /\ calls[c].pc = "stream"
    /\ calls[c].stream # <<>>
    /\ calls' = [calls EXCEPT ![c] =
                   Failed(@, TranslateErrorTs(StreamErr, @.corr, FailureLabel("chat")))]
    /\ UNCHANGED <<impl, maxRetries, timeout, requests>>

\* The caller gives the call up (its client disconnects, its own deadline
\* passes) during an attempt or a backoff sleep.  ServiceContext carries no
\* cancellation signal and retryRequest takes none, so nothing of the call
\* changes; cancelledAt only records how many invocations had been made.
Cancel(c) ==
    /\ calls[c].pc \in {"inflight", "sleep"}
    /\ calls[c].cancelledAt = 0
    /\ calls' = [calls EXCEPT ![c] = [@ EXCEPT !.cancelledAt = calls[c].invocations]]
    /\ UNCHANGED <<impl, maxRetries, timeout, requests>>

(***************************************************************************)
(* Inputs and replies.                                                     *)
(***************************************************************************)
\* The lines a reply is made of: messages with content, a message with
\* empty content, an object without message, an empty line and a line cut
\* short (not valid JSON).
ReplyLines ==
    {<<"{", "a", "}">>, <<"{", "b", "}">>, <<"{", "}">>, <<"d">>, <<>>, <<"{", "a">>}

\* Every reply of `k` lines; the last line ends with a newline or not.
RECURSIVE Terminated(_)
Terminated(lines) ==
    IF lines = <<>> THEN <<>> ELSE Head(lines) \o <<NL>> \o Terminated(Tail(lines))

RepliesOf(k) ==
    LET seqs == [1..k -> ReplyLines]
    IN  {Terminated(ls) : ls \in seqs}
        \cup {Terminated(SubSeq(ls, 1, k - 1)) \o ls[k] : ls \in {x \in seqs : k >= 1}}

StreamReplies == UNION {RepliesOf(k) : k \in 0..MaxLines}

\* Replies of the whole-pipeline specification: at most one line.
SpecReplies == RepliesOf(0) \cup RepliesOf(1)

PlainReplies == {Absent, Present(<<>>), Present(<<"a", "b">>)}

ShortText == <<<<"a", 2>>>>
\* A text over the budget of every call of the whole-pipeline specification
\* (model 'phi': 1433 tokens, 5732 characters).
LongText == <<<<"a", 4299>>, <<" ", 1>>, <<"b", 2866>>>>
\* A message {role, content, name}; the name tells the messages of one
\* input apart.
Message(role, content, name) == [role |-> role, content |-> content, name |-> name]
UserMessage(text) == Message("user", text, 1)

DefaultTimeout == 30000
CallIds == {1}

SpecCalls(corr) ==
    {NewCall("chat", "phi", m, Absent, st, corr) :
        m \in {Absent, Present(<<>>), Present(<<UserMessage(ShortText)>>),
               Present(<<UserMessage(LongText)>>)},
        st \in BOOLEAN}
    \cup {NewCall("text", "phi", Absent, p, st, corr) :
        p \in {Absent, Present(<<>>), Present(ShortText), Present(LongText)},
        st \in BOOLEAN}
    \cup {NewCall("list", "phi", Absent, Absent, FALSE, corr)}

(***************************************************************************)
(* The whole pipeline: one call on a TypeScript or JavaScript service.     *)
(***************************************************************************)
Init ==
    /\ requests = <<>>
    /\ impl \in {"ts", "js"}
    /\ maxRetries \in 1..MaxRetriesBound
    /\ timeout = DefaultTimeout
    /\ calls \in {[c \in CallIds |-> x] : x \in SpecCalls(1)}

Next ==
    \/ \E c \in DOMAIN calls : Begin(c)
    \/ \E c \in DOMAIN calls : Invoke(c)
    \/ \E c \in DOMAIN calls : \E text \in SpecReplies : SucceedStream(c, text)
    \/ \E c \in DOMAIN calls : \E content \in PlainReplies : SucceedPlain(c, content)
    \/ \E c \in DOMAIN calls :
          \E error \in RequestFailures(calls[c].invocations) : Fail(c, error)
    \/ \E c \in DOMAIN calls : Wake(c)
    \/ \E c \in DOMAIN calls : \E n \in 1..Len(calls[c].stream) : StreamChunk(c, n)
    \/ \E c \in DOMAIN calls : StreamEnd(c)
    \/ \E c \in DOMAIN calls : StreamFail(c)

Spec == Init /\ [][Next]_vars

(***************************************************************************)
(* Properties of retryRequest.                                             *)
(***************************************************************************)
\* A raw failure that is a timeout: axios' own timeout (ECONNABORTED) or the
\* socket's (ETIMEDOUT).
TimedOut(error) == error.code \in {"ECONNABORTED", "ETIMEDOUT"}

AllTimedOut(errors) == \A i \in 1..Len(errors) : TimedOut(errors[i])

\* C1: when requestFn fails on its first k < maxRetries invocations and
\* succeeds on invocation k+1, retryRequest returns that success and
\* requestFn has been invoked exactly k+1 times: once an invocation has
\* succeeded, retryRequest has returned, exactly one invocation succeeded,
\* every earlier one failed, and none is in flight or follows.
C1_ReturnsAfterFirstSuccess ==
    \A c \in DOMAIN calls :
        calls[c].successes >= 1 =>
            /\ calls[c].retry.type = "returned"
            /\ calls[c].successes = 1
            /\ Len(calls[c].errors) < maxRetries
            /\ calls[c].invocations = Len(calls[c].errors) + 1
            /\ calls[c].inflight = 0
            /\ calls[c].pc \in {"stream", "done"}

\* C1 witness: a call that succeeded on its last permitted invocation after
\* maxRetries - 1 failures.
C1_Witness ==
    \E c \in DOMAIN calls :
        /\ maxRetries >= 2
        /\ calls[c].successes = 1
        /\ Len(calls[c].errors) = maxRetries - 1

C3_Original ==
    \A c \in DOMAIN calls :
        calls[c].retry.err.cls = "TimeoutError" => AllTimedOut(calls[c].errors)

\* C3 (amended): retryRequest fails with TimeoutError only when the last of
\* the maxRetries attempts failed with a timeout; the earlier attempts may
\* have failed with anything.
C3_TimeoutOnlyAfterLastTimeout ==
    \A c \in DOMAIN calls :
        calls[c].retry.err.cls = "TimeoutError" =>
            /\ impl = "ts"
            /\ Len(calls[c].errors) = maxRetries
            /\ TimedOut(calls[c].errors[maxRetries])

\* C3 witness: a TimeoutError after an earlier attempt that was no timeout.
C3_Witness ==
    \E c \in DOMAIN calls :
        /\ calls[c].retry.err.cls = "TimeoutError"
        /\ ~AllTimedOut(calls[c].errors)

\* C4: when the last attempt fails with an error that is no timeout,
\* retryRequest propagates exactly that attempt's error.
C4_PropagatesLastError ==
    \A c \in DOMAIN calls :
        (/\ calls[c].retry.type = "threw"
         /\ ~TimedOut(calls[c].errors[Len(calls[c].errors)])) =>
            /\ Len(calls[c].errors) = maxRetries
            /\ calls[c].retry.err = calls[c].errors[maxRetries]
            /\ calls[c].retry.err.at = maxRetries

\* C4 witness: a TypeScript call whose earlier attempt timed out and whose
\* last attempt failed otherwise.
C4_Witness ==
    \E c \in DOMAIN calls :
        /\ impl = "ts" /\ maxRetries >= 2
        /\ calls[c].retry.type = "threw"
        /\ TimedOut(calls[c].errors[1])
        /\ ~TimedOut(calls[c].errors[maxRetries])

(***************************************************************************)
(* Properties of the completion methods.                                   *)
(***************************************************************************)
IsValidationError(error, corr) ==
    /\ IsAppError(error)
    /\ error.status = 400
    /\ error.code = "VALIDATION_ERROR"
    /\ error.corr = corr

\* C5: (TypeScript service) a chat completion with an empty messages array
\* and a text completion with an empty or missing prompt fail with a
\* validation error (400, VALIDATION_ERROR, the call's correlation id), and
\* the backend is never invoked.
C5_ValidationBeforeBackend ==
    \A c \in DOMAIN calls :
        (/\ impl = "ts"
         /\ calls[c].pc # "init"
         /\ \/ calls[c].kind = "chat" /\ calls[c].messages = Present(<<>>)
            \/ calls[c].kind = "text" /\ calls[c].prompt \in {Absent, Present(<<>>)}) =>
            /\ calls[c].outcome.type = "error"
            /\ IsValidationError(calls[c].outcome.err, calls[c].corr)
            /\ calls[c].invocations = 0

(***************************************************************************)
(* The stream loop on its own: a TypeScript chat call whose request        *)
(* succeeds, with every reply of up to MaxLines lines, cut into chunks in  *)
(* every way.                                                              *)
(***************************************************************************)
InitStream ==
    /\ requests = <<>>
    /\ impl = "ts"
    /\ maxRetries \in 1..MaxRetriesBound
    /\ timeout = DefaultTimeout
    /\ calls \in {[c \in CallIds |->
                     NewCall("chat", "phi", Present(<<UserMessage(ShortText)>>),
                             Absent, st, 1)] : st \in BOOLEAN}

NextStream ==
    \/ \E c \in DOMAIN calls : Begin(c)
    \/ \E c \in DOMAIN calls : Invoke(c)
    \/ \E c \in DOMAIN calls : \E text \in StreamReplies : SucceedStream(c, text)
    \/ \E c \in DOMAIN calls : \E n \in 1..Len(calls[c].stream) : StreamChunk(c, n)
    \/ \E c \in DOMAIN calls : StreamEnd(c)
    \/ \E c \in DOMAIN calls : StreamFail(c)

StreamSpec == InitStream /\ [][NextStream]_vars

(***************************************************************************)
(* Properties of the stream loop.  The reference reads the reply as a      *)
(* whole: its lines are the stretches between newlines, complete when a    *)
(* newline ends them.                                                      *)
(***************************************************************************)
\* The complete (newline-terminated) lines of a text, in order.
RECURSIVE CompleteLinesFrom(_, _)
CompleteLinesFrom(text, line) ==
    IF text = <<>> THEN <<>>
    ELSE IF Head(text) = NL THEN <<line>> \o CompleteLinesFrom(Tail(text), <<>>)
    ELSE CompleteLinesFrom(Tail(text), Append(line, Head(text)))
CompleteLines(text) == CompleteLinesFrom(text, <<>>)

\* What follows the last newline of a text.
RECURSIVE LastPartialFrom(_, _)
LastPartialFrom(text, line) ==
    IF text = <<>> THEN line
    ELSE IF Head(text) = NL THEN LastPartialFrom(Tail(text), <<>>)
    ELSE LastPartialFrom(Tail(text), Append(line, Head(text)))
LastPartial(text) == LastPartialFrom(text, <<>>)

\* message.content of a line ("" for a line that carries none).
LineContent(line) == JSONparse(line).content

RECURSIVE ContentOfLines(_)
ContentOfLines(lines) ==
    IF lines = <<>> THEN <<>> ELSE LineContent(Head(lines)) \o ContentOfLines(Tail(lines))

AllJSON(lines) == \A i \in 1..Len(lines) : lines[i] = <<>> \/ JSONparse(lines[i]).ok

\* The part of the reply the loop has been given so far.
Consumed(call) == SubSeq(call.reply, 1, Len(call.reply) - Len(call.stream))

C7_FinalLineConsumed ==
    \A c \in DOMAIN calls :
        (/\ calls[c].pc = "done" /\ calls[c].outcome.type = "ok"
         /\ LastPartial(calls[c].reply) # <<>>
         /\ JSONparse(LastPartial(calls[c].reply)).ok) =>
            calls[c].outcome.content =
                ContentOfLines(CompleteLines(calls[c].reply))
                    \o LineContent(LastPartial(calls[c].reply))

(***************************************************************************)
(* The context budgeter on its own: JavaScript chat and text calls whose   *)
(* request succeeds, with inputs below, at and above the model's budget.   *)
(***************************************************************************)
DefaultMaxRetries == 3

\* floor(limit(model) * 0.7), the budget in tokens.
Budget(model) == (contextLimits(model) * 7) \div 10

FitModels == {"phi", "llama3", "qwen"}

Word(ch, n) == <<<<ch, n>>>>

\* Prompts around the budget B of a model: one word of 4B - 8 characters
\* is estimated at exactly B tokens.
FitPrompts(model) ==
    LET B == Budget(model)
    IN  {Word("a", 2),
         Word("a", 4 * B - 8),
         Word("a", 4 * B - 4),
         Word("a", 4 * B),
         Word("a", 4 * B + 1),
         <<<<"a", 3 * B>>, <<" ", 1>>, <<"b", 2 * B>>>>,
         <<<<"a", 2>>, <<" ", 1>>, <<"b", 6 * B>>, <<NL, 1>>, <<"c", 3>>>>}

FitContents(model) ==
    LET B == Budget(model)
    IN  {Word("a", 2), Word("a", 2 * B), <<<<"a", 3 * B>>, <<" ", 1>>, <<"b", 2 * B>>>>}

\* Every conversation of k messages, named 1..k in order.
Conversations(model, k) ==
    {[i \in 1..k |-> Message(rc[i][1], rc[i][2], i)] :
        rc \in [1..k -> {"system", "user"} \X FitContents(model)]}

\* A text call with each prompt or a chat call with each conversation of at
\* most MaxMessages messages, for each model.
InitFit ==
    /\ requests = <<>>
    /\ impl = "js"
    /\ maxRetries = DefaultMaxRetries
    /\ timeout = DefaultTimeout
    /\ \E model \in FitModels :
          \/ \E p \in FitPrompts(model) :
                calls = [c \in CallIds |-> NewCall("text", model, Absent, Present(p), FALSE, 1)]
          \/ \E k \in 1..MaxMessages : \E ms \in Conversations(model, k) :
                calls = [c \in CallIds |-> NewCall("chat", model, Present(ms), Absent, FALSE, 1)]

NextFit ==
    \/ \E c \in DOMAIN calls : Begin(c)
    \/ \E c \in DOMAIN calls : Invoke(c)
    \/ \E c \in DOMAIN calls : SucceedPlain(c, Present(<<"a", "b">>))

FitSpec == InitFit /\ [][NextFit]_vars

(***************************************************************************)
(* Properties of the context budgeter.                                     *)
(***************************************************************************)
\* The call has passed validation and built its request.
Fitted(call) == call.pc # "init" /\ call.attempt >= 1

\* `out` is `s` with its middle replaced by the prompt's truncation marker:
\* a non-empty prefix of s, the marker, a non-empty suffix of s.
KeepsBothEnds(s, out) ==
    \E p \in 1..(RLen(out) - RLen(PromptMarker) - 1) :
        LET q == RLen(out) - RLen(PromptMarker) - p
        IN  out = RConcat(RConcat(RTake(s, p), PromptMarker), RSubFrom(s, RLen(s) - q))

\* C8: a prompt whose estimate is within floor(limit(model) * 0.7) is sent
\* unchanged, and so is a message sequence whose summed estimate is.
C8_NoOpBelowBudget ==
    \A c \in DOMAIN calls :
        /\ (Fitted(calls[c]) /\ calls[c].kind = "text"
            /\ countTokens(calls[c].prompt.val) <= Budget(calls[c].model)) =>
              calls[c].request.prompt = calls[c].prompt.val
        /\ (Fitted(calls[c]) /\ calls[c].kind = "chat"
            /\ countTokensMessages(calls[c].messages.val) <= Budget(calls[c].model)) =>
              calls[c].request.messages = calls[c].messages.val

\* C8 witness: a prompt estimated at exactly the budget has been through
\* processLongPrompt.
C8_Witness ==
    \E c \in DOMAIN calls :
        /\ Fitted(calls[c]) /\ calls[c].kind = "text"
        /\ countTokens(calls[c].prompt.val) = Budget(calls[c].model)
        /\ calls[c].request.prompt = calls[c].prompt.val

\* C9 (as stated): a prompt whose estimate exceeds the budget comes back
\* strictly shorter, holding the truncation marker between a non-empty
\* prefix and a non-empty suffix of the original.
C9_Original ==
    \A c \in DOMAIN calls :
        (Fitted(calls[c]) /\ calls[c].kind = "text"
         /\ countTokens(calls[c].prompt.val) > Budget(calls[c].model)) =>
            /\ RLen(calls[c].request.prompt) < RLen(calls[c].prompt.val)
            /\ KeepsBothEnds(calls[c].prompt.val, calls[c].request.prompt)

\* C9 (amended): a prompt longer than 4 * floor(limit(model) * 0.7)
\* characters (whose estimate then exceeds the budget) comes back strictly
\* shorter, holding the truncation marker between a non-empty prefix and a
\* non-empty suffix of the original; a prompt over the budget that is at most
\* that many characters long comes back unchanged.
C9_TruncatesLongPrompt ==
    \A c \in DOMAIN calls :
        /\ (Fitted(calls[c]) /\ calls[c].kind = "text"
            /\ RLen(calls[c].prompt.val) > 4 * Budget(calls[c].model)) =>
              /\ countTokens(calls[c].prompt.val) > Budget(calls[c].model)
              /\ RLen(calls[c].request.prompt) < RLen(calls[c].prompt.val)
              /\ KeepsBothEnds(calls[c].prompt.val, calls[c].request.prompt)
        /\ (Fitted(calls[c]) /\ calls[c].kind = "text"
            /\ RLen(calls[c].prompt.val) <= 4 * Budget(calls[c].model)) =>
              calls[c].request.prompt = calls[c].prompt.val

\* C9 witness: a truncated prompt whose two ends differ.
C9_Witness ==
    \E c \in DOMAIN calls :
        /\ Fitted(calls[c]) /\ calls[c].kind = "text"
        /\ RLen(calls[c].prompt.val) > 4 * Budget(calls[c].model)
        /\ calls[c].prompt.val[1][1] = "a"
        /\ calls[c].request.prompt[Len(calls[c].request.prompt)][1] = "b"

\* C10: the budgeter is idempotent: applied to its own result, it returns
\* that result (prompts and message sequences).
C10_Idempotent ==
    \A c \in DOMAIN calls :
        /\ (Fitted(calls[c]) /\ calls[c].kind = "text") =>
              processLongPrompt(calls[c].request.prompt, calls[c].model)
                  = calls[c].request.prompt
        /\ (Fitted(calls[c]) /\ calls[c].kind = "chat") =>
              processLongMessages(calls[c].request.messages, calls[c].model)
                  = calls[c].request.messages

\* C11: whatever the budgeter returns is estimated within the budget
\* floor(limit(model) * 0.7), for prompts and for message sequences.
C11_ResultFitsBudget ==
    \A c \in DOMAIN calls :
        /\ (Fitted(calls[c]) /\ calls[c].kind = "text") =>
              countTokens(calls[c].request.prompt) <= Budget(calls[c].model)
        /\ (Fitted(calls[c]) /\ calls[c].kind = "chat") =>
              countTokensMessages(calls[c].request.messages) <= Budget(calls[c].model)

(***************************************************************************)
(* Properties of the whole pipeline, continued.                            *)
(***************************************************************************)
\* C12: in every chat or text call that has reached the backend, the
\* messages / prompt of the outbound request are the budgeter's result for
\* the caller's input and the call's model.
C12_OutboundIsFit ==
    \A c \in DOMAIN calls :
        /\ (calls[c].invocations >= 1 /\ calls[c].kind = "chat") =>
              calls[c].request.messages
                  = processLongMessages(calls[c].messages.val, calls[c].model)
        /\ (calls[c].invocations >= 1 /\ calls[c].kind = "text") =>
              calls[c].request.prompt
                  = processLongPrompt(calls[c].prompt.val, calls[c].model)

\* A TypeScript chat or text call that has failed.
FailedTsCompletion(call) ==
    impl = "ts" /\ call.kind \in {"chat", "text"} /\ call.outcome.type = "error"

\* The input of the call is present and empty: the validation rejects it.
EmptyInput(call) ==
    \/ call.kind = "chat" /\ call.messages.present /\ call.messages.val = <<>>
    \/ call.kind = "text" /\ call.prompt.present /\ call.prompt.val = <<>>

\* C13: a failed TypeScript chat / text completion surfaces a typed error
\* unchanged (the TimeoutError thrown by retryRequest, the validation error)
\* and every other failure as an ExternalServiceError naming 'Ollama' and
\* carrying the call's correlation id.
C13_ErrorTranslation ==
    \A c \in DOMAIN calls :
        FailedTsCompletion(calls[c]) =>
            LET call == calls[c]
                e == call.outcome.err
            IN  IF call.retry.type = "threw" /\ IsAppError(call.retry.err)
                THEN e = call.retry.err
                ELSE IF call.retry.type = "none" /\ EmptyInput(call)
                THEN /\ e.cls = "AppError" /\ e.code = "VALIDATION_ERROR"
                     /\ e.status = 400 /\ e.corr = call.corr
                ELSE /\ e.cls = "ExternalServiceError" /\ e.service = "Ollama"
                     /\ e.code = "EXTERNAL_SERVICE_ERROR" /\ e.status = 502
                     /\ e.corr = call.corr
                     /\ call.retry.type = "threw" => e.cause = call.retry.err.at

\* C13 witness: retryRequest threw a TimeoutError after an earlier raw
\* failure and the completion method rethrew it as it was.
C13_Witness ==
    \E c \in DOMAIN calls :
        /\ FailedTsCompletion(calls[c])
        /\ calls[c].retry.type = "threw"
        /\ calls[c].retry.err.cls = "TimeoutError"
        /\ calls[c].outcome.err = calls[c].retry.err
        /\ Len(calls[c].errors) >= 2

\* C14: a chat or text completion that returned reports
\* prompt_tokens = the estimate of the caller's messages / prompt,
\* completion_tokens = the length of the returned content, and
\* total_tokens = their sum.
C14_UsageAddsUp ==
    \A c \in DOMAIN calls :
        (calls[c].outcome.type = "ok" /\ calls[c].kind \in {"chat", "text"}) =>
            LET call == calls[c]
                u == call.outcome.usage
            IN  /\ u.total_tokens = u.prompt_tokens + u.completion_tokens
                /\ u.completion_tokens = Len(call.outcome.content)
                /\ call.kind = "chat" =>
                      u.prompt_tokens = countTokensMessages(call.messages.val)
                /\ call.kind = "text" => u.prompt_tokens = countTokens(call.prompt.val)

\* C14 witness: a JavaScript text completion whose prompt was truncated
\* returned a content of two characters.
C14_Witness ==
    \E c \in DOMAIN calls :
        /\ impl = "js" /\ calls[c].kind = "text"
        /\ calls[c].outcome.type = "ok"
        /\ calls[c].request.prompt # calls[c].prompt.val
        /\ calls[c].outcome.usage.completion_tokens = 2
        /\ calls[c].outcome.usage.total_tokens = countTokens(LongText) + 2

\* C15: the attempts of one call are strictly sequential.  At most one
\* invocation of requestFn is in flight; while attempt n is in flight or
\* about to go out, exactly the n - 1 earlier invocations have been made,
\* each of them has failed and each of their backoff sleeps has been started
\* and has ended (the loop counter advances only when a sleep ends).
C15_AttemptsSequential ==
    \A c \in DOMAIN calls :
        LET call == calls[c]
        IN  /\ call.inflight \in {0, 1}
            /\ call.inflight = 1 <=> call.pc = "inflight"
            /\ call.invocations = Len(call.errors) + call.successes + call.inflight
            /\ call.pc = "inflight" =>
                  /\ call.invocations = call.attempt
                  /\ Len(call.errors) = call.attempt - 1
                  /\ Len(call.delays) = call.attempt - 1
            /\ call.pc = "attempt" =>
                  /\ call.invocations = call.attempt - 1
                  /\ Len(call.errors) = call.attempt - 1
                  /\ Len(call.delays) = call.attempt - 1
            /\ call.pc = "sleep" =>
                  /\ call.invocations = call.attempt
                  /\ Len(call.errors) = call.attempt
                  /\ Len(call.delays) = call.attempt

\* C15 witness: the third attempt is in flight after two failures and two
\* sleeps.
C15_Witness ==
    \E c \in DOMAIN calls :
        /\ calls[c].pc = "inflight" /\ calls[c].attempt = 3
        /\ calls[c].inflight = 1
        /\ Len(calls[c].errors) = 2 /\ Len(calls[c].delays) = 2

(***************************************************************************)
(* A chat call whose caller may give it up while it is in progress.        *)
(***************************************************************************)
InitCancel ==
    /\ requests = <<>>
    /\ impl \in {"ts", "js"}
    /\ maxRetries \in 1..MaxRetriesBound
    /\ timeout = DefaultTimeout
    /\ calls = [c \in CallIds |->
                  NewCall("chat", "phi", Present(<<UserMessage(ShortText)>>),
                          Absent, FALSE, 1)]

NextCancel ==
    \/ \E c \in DOMAIN calls : Begin(c)
    \/ \E c \in DOMAIN calls : Invoke(c)
    \/ \E c \in DOMAIN calls : \E text \in SpecReplies : SucceedStream(c, text)
    \/ \E c \in DOMAIN calls : \E content \in PlainReplies : SucceedPlain(c, content)
    \/ \E c \in DOMAIN calls :
          \E error \in RequestFailures(calls[c].invocations) : Fail(c, error)
    \/ \E c \in DOMAIN calls : Wake(c)
    \/ \E c \in DOMAIN calls : \E n \in 1..Len(calls[c].stream) : StreamChunk(c, n)
    \/ \E c \in DOMAIN calls : StreamEnd(c)
    \/ \E c \in DOMAIN calls : StreamFail(c)
    \/ \E c \in DOMAIN calls : Cancel(c)

CancelSpec == InitCancel /\ [][NextCancel]_vars

\* C16: once the caller has given the call up, no invocation of requestFn
\* is in flight and none is made any more.
C16_CancelStopsCall ==
    \A c \in DOMAIN calls :
        calls[c].cancelledAt > 0 =>
            /\ calls[c].inflight = 0
            /\ calls[c].invocations = calls[c].cancelledAt

(***************************************************************************)
(* Two chat calls in progress at once on one TypeScript service.  Each     *)
(* call's backend answers with its own failures and its own reply, so that *)
(* anything of one call turning up in the other is seen.                   *)
(***************************************************************************)
ConcRetries == 2
ConcIds == {1, 2}

ConcFailures(c, at) ==
    IF c = 1 THEN {AxiosTimeout(at), ConnRefused(at)}
    ELSE {SocketTimeout(at), HttpError(at)}

ConcReply(c) ==
    IF c = 1 THEN <<"{", "a", "}", NL, "{", "a", "}", NL>>
    ELSE <<"{", "b", "}", NL, "{", "b", "}", NL>>

InitConc ==
    /\ requests = <<>>
    /\ impl = "ts"
    /\ maxRetries = ConcRetries
    /\ timeout = DefaultTimeout
    /\ calls = [c \in ConcIds |->
                  NewCall("chat", "phi", Present(<<UserMessage(ShortText)>>),
                          Absent, FALSE, c)]

NextConc ==
    \/ \E c \in DOMAIN calls : Begin(c)
    \/ \E c \in DOMAIN calls : Invoke(c)
    \/ \E c \in DOMAIN calls : SucceedStream(c, ConcReply(c))
    \/ \E c \in DOMAIN calls :
          \E error \in ConcFailures(c, calls[c].invocations) : Fail(c, error)
    \/ \E c \in DOMAIN calls : Wake(c)
    \/ \E c \in DOMAIN calls : \E n \in 1..Len(calls[c].stream) : StreamChunk(c, n)
    \/ \E c \in DOMAIN calls : StreamEnd(c)
    \/ \E c \in DOMAIN calls : StreamFail(c)

ConcSpec == InitConc /\ [][NextConc]_vars

\* The result of a finished chat call had it run alone against the backend
\* answers it was given: its failures call.errors in order, then, if an
\* attempt succeeded, the reply call.reply read to its end or broken off.
Alone(call) ==
    IF call.successes = 0
    THEN LET last == call.errors[Len(call.errors)]
         IN  [NoOutcome EXCEPT
                !.type = "error",
                !.err = IF last.code \in {"ECONNABORTED", "ETIMEDOUT"}
                        THEN TimeoutError(<<"Request", "timeout", "after", "attempts">>,
                                          call.corr, timeout)
                        ELSE ExternalServiceError(FailureLabel("chat"), call.corr,
                                                  "Ollama", last)]
    ELSE IF call.stream = <<>>
    THEN LET content == ContentOfLines(CompleteLines(call.reply))
         IN  [type |-> "ok", err |-> NoError, content |-> content,
              usage |-> [prompt_tokens |-> countTokensMessages(call.messages.val),
                         completion_tokens |-> Len(content),
                         total_tokens |-> countTokensMessages(call.messages.val)
                                            + Len(content)]]
    ELSE [NoOutcome EXCEPT
            !.type = "error",
            !.err = ExternalServiceError(FailureLabel("chat"), call.corr,
                                         "Ollama", StreamErr)]

\* C17: with two calls interleaved in every way, each call's attempt
\* counter, lastError, stream buffer and accumulated content follow from
\* that call's own backend answers alone, and so does its result: content,
\* usage, error and number of invocations are those of the call run alone.
C17_CallsIsolated ==
    \A c \in DOMAIN calls :
        LET call == calls[c]
        IN  /\ call.invocations = Len(call.errors) + call.successes + call.inflight
            /\ call.pc \in {"inflight", "sleep"} => call.attempt = call.invocations
            /\ call.pc = "attempt" => call.attempt = call.invocations + 1
            /\ \A i \in 1..Len(call.errors) : call.errors[i] \in ConcFailures(c, i)
            /\ call.errors # <<>> => call.lastError = call.errors[Len(call.errors)]
            /\ call.reply \in {<<>>, ConcReply(c)}
            /\ call.pc = "stream" =>
                  /\ call.fullContent = ContentOfLines(CompleteLines(Consumed(call)))
                  /\ call.buffer = LastPartial(Consumed(call))
            /\ call.pc = "done" =>
                  /\ call.outcome = Alone(call)
                  /\ call.successes = 0 => call.invocations = maxRetries

\* C17 witness: both calls are in their stream loops, each after a failed
\* first attempt, with different partial lines buffered and different
\* contents accumulated.
C17_Witness ==
    /\ calls[1].pc = "stream" /\ calls[2].pc = "stream"
    /\ Len(calls[1].errors) = 1 /\ Len(calls[2].errors) = 1
    /\ calls[1].buffer = <<"{", "a">> /\ calls[1].fullContent = <<>>
    /\ calls[2].buffer = <<"{">> /\ calls[2].fullContent = <<"b">>

(***************************************************************************)
(* The routers in front of the services.  A request runs through the       *)
(* middleware its route was registered with, in order, and reaches the     *)
(* controller handler when every one of them has called next().            *)
(*   "rate"      rateLimiter / rateLimitMiddleware                         *)
(*   "auth"      authenticateApiKey                                        *)
(*   "upload"    multer upload.single(...)                                 *)
(*   "validate"  validationMiddleware(schema)                              *)
(***************************************************************************)
\* process.env.API_KEY
API_KEY == "secret"

NoHeader == [present |-> FALSE, val |-> ""]
Header(v) == [present |-> TRUE, val |-> v]
\* JavaScript truthiness of a header value
Truthy(h) == h.present /\ h.val # ""

\* value.replace('Bearer ', '')
StripBearer(v) ==
    CASE v = "Bearer secret" -> "secret"
      [] v = "Bearer wrong" -> "wrong"
      [] OTHER -> v

\* What a middleware does: call next(), or answer with `status`.
CallNext == [next |-> TRUE, status |-> 0]
Respond(status) == [next |-> FALSE, status |-> status]

\* authenticateApiKey of middleware/auth.js
authenticateApiKeyJs(headers) ==
    LET apiKey == IF Truthy(headers.xApiKey) THEN headers.xApiKey
                  ELSE IF headers.authorization.present
                  THEN Header(StripBearer(headers.authorization.val))
                  ELSE NoHeader
    IN  IF ~Truthy(apiKey) THEN Respond(401)
        ELSE IF apiKey.val # API_KEY THEN Respond(403)
        ELSE CallNext

\* authenticateApiKey of middleware/auth.middleware.ts
authenticateApiKeyTs(headers) ==
    LET apiKey == headers.xApiKey
    IN  IF ~Truthy(apiKey) THEN Respond(401)
        ELSE IF apiKey.val # API_KEY THEN Respond(401)
        ELSE CallNext

Route(method, path, chain) == [method |-> method, path |-> path, chain |-> chain]

\* routes/ollama.js, routes/documents.js, routes/voice.js as mounted by
\* index.js
JsRoutes ==
    {Route("POST", "/api/ollama/chat", <<"auth", "rate">>),
     Route("POST", "/api/ollama/generate", <<"auth", "rate">>),
     Route("GET", "/api/ollama/models", <<"auth">>),
     Route("GET", "/api/ollama/models/:model", <<"auth">>),
     Route("POST", "/api/ollama/models/pull", <<"auth">>),
     Route("DELETE", "/api/ollama/models/delete", <<"auth">>),
     Route("GET", "/api/ollama/health", <<>>),
     Route("GET", "/api/ollama/stats", <<"auth">>),
     Route("POST", "/api/documents/upload", <<"auth", "rate", "upload">>),
     Route("POST", "/api/documents/:fileId/summarize", <<"auth", "rate">>),
     Route("POST", "/api/documents/:fileId/question", <<"auth", "rate">>),
     Route("GET", "/api/documents/", <<"auth">>),
     Route("GET", "/api/documents/:fileId", <<"auth">>),
     Route("DELETE", "/api/documents/:fileId", <<"auth">>),
     Route("POST", "/api/voice/upload-audio", <<"upload">>)}

\* The TypeScript routers: the Ollama routes and routes/documents.ts
TsRoutes ==
    {Route("POST", "/api/ollama/chat", <<"rate", "auth", "validate">>),
     Route("POST", "/api/ollama/generate", <<"rate", "auth", "validate">>),
     Route("GET", "/api/ollama/models", <<"rate", "auth">>),
     Route("GET", "/api/ollama/health", <<"rate", "auth">>),
     Route("GET", "/api/ollama/stats", <<"rate", "auth">>),
     Route("POST", "/api/documents/upload", <<"rate", "auth", "upload", "validate">>),
     Route("POST", "/api/documents/:fileId/summarize", <<"rate", "auth", "validate">>),
     Route("POST", "/api/documents/:fileId/question", <<"rate", "auth", "validate">>),
     Route("GET", "/api/documents/:fileId", <<"rate", "auth">>),
     Route("DELETE", "/api/documents/:fileId", <<"rate", "auth">>),
     Route("GET", "/api/documents/", <<"rate", "auth">>)}

Routes == IF impl = "ts" THEN TsRoutes ELSE JsRoutes

\* The headers a request may come with.
RequestHeaders ==
    [xApiKey : {NoHeader, Header(""), Header("secret"), Header("wrong")},
     authorization : {NoHeader, Header("Bearer secret"), Header("Bearer wrong")}]

\* A request matched to its route, before the first middleware.
NewRequest(route, headers) ==
    [route |-> route, headers |-> headers, chain |-> route.chain,
     stage |-> "routing", status |-> 0]

RequestIds == {1}

\* A middleware's result applied to the request.
After(request, result) ==
    IF result.next THEN [request EXCEPT !.chain = Tail(@)]
    ELSE [request EXCEPT !.stage = "responded", !.status = result.status]

Running(r, middleware) ==
    /\ requests[r].stage = "routing"
    /\ requests[r].chain # <<>>
    /\ Head(requests[r].chain) = middleware

\* The rate limiter lets the request pass or answers 429.
RateLimit(r, pass) ==
    /\ Running(r, "rate")
    /\ requests' = [requests EXCEPT ![r] =
                      After(@, IF pass THEN CallNext ELSE Respond(429))]
    /\ UNCHANGED <<impl, maxRetries, timeout, calls>>

Authenticate(r) ==
    /\ Running(r, "auth")
    /\ requests' = [requests EXCEPT ![r] =
                      After(@, IF impl = "ts" THEN authenticateApiKeyTs(@.headers)
                               ELSE authenticateApiKeyJs(@.headers))]
    /\ UNCHANGED <<impl, maxRetries, timeout, calls>>

\* multer accepts the upload or fails; the schema validation passes or
\* answers 400.
UploadOrValidate(r, pass) ==
    /\ Running(r, "upload") \/ Running(r, "validate")
    /\ requests' = [requests EXCEPT ![r] =
                      After(@, IF pass THEN CallNext ELSE Respond(400))]
    /\ UNCHANGED <<impl, maxRetries, timeout, calls>>

\* Every middleware has called next(): the controller handler runs.
Handle(r) ==
    /\ requests[r].stage = "routing"
    /\ requests[r].chain = <<>>
    /\ requests' = [requests EXCEPT ![r] = [@ EXCEPT !.stage = "handler"]]
    /\ UNCHANGED <<impl, maxRetries, timeout, calls>>

InitRoute ==
    /\ impl \in {"ts", "js"}
    /\ maxRetries = DefaultMaxRetries
    /\ timeout = DefaultTimeout
    /\ calls = <<>>
    /\ \E route \in Routes : \E headers \in RequestHeaders :
          requests = [r \in RequestIds |-> NewRequest(route, headers)]

NextRoute ==
    \/ \E r \in DOMAIN requests : \E pass \in BOOLEAN : RateLimit(r, pass)
    \/ \E r \in DOMAIN requests : Authenticate(r)
    \/ \E r \in DOMAIN requests : \E pass \in BOOLEAN : UploadOrValidate(r, pass)
    \/ \E r \in DOMAIN requests : Handle(r)

RouteSpec == InitRoute /\ [][NextRoute]_vars

IsHealth(route) == route.method = "GET" /\ route.path = "/api/ollama/health"

\* The request carries the configured API key.
CarriesKey(headers) ==
    \/ headers.xApiKey = Header(API_KEY)
    \/ headers.authorization = Header("Bearer secret")

\* C18: a request to any route but the health check is in its handler only
\* if it carries the configured API key, and a health check is never turned
\* away for its key.
C18_KeyGuardsRoutes ==
    \A r \in DOMAIN requests :
        /\ (requests[r].stage = "handler" /\ ~IsHealth(requests[r].route)) =>
              CarriesKey(requests[r].headers)
        /\ (IsHealth(requests[r].route) /\ requests[r].stage = "responded") =>
              requests[r].status \notin {401, 403}

IsSystem(message) == message.role = "system"
IsNotSystem(message) == message.role # "system"

\* The names (positions in the input) of the messages of a sequence.
NamesOf(messages) == {messages[i].name : i \in DOMAIN messages}

\* The names of the last 3 non-system messages of the input.
LastThreeNames(messages) ==
    LET others == SelectSeq(messages, IsNotSystem)
    IN  {others[i].name : i \in {j \in DOMAIN others : j > Len(others) - 3}}

\* A chat call whose messages were over the budget has built its request.
OverBudgetChat(call) ==
    /\ Fitted(call) /\ call.kind = "chat"
    /\ countTokensMessages(call.messages.val) > Budget(call.model)

\* C20: from a message sequence over the budget, processLongMessages keeps
\* every system message as it was, and of the others only messages out of
\* the last 3 of the input, each at most once.
C20_KeepsSystemAndLastThree ==
    \A c \in DOMAIN calls :
        OverBudgetChat(calls[c]) =>
            LET input == calls[c].messages.val
                out == calls[c].request.messages
                kept == SelectSeq(out, IsNotSystem)
            IN  /\ SelectSeq(out, IsSystem) = SelectSeq(input, IsSystem)
                /\ NamesOf(kept) \subseteq LastThreeNames(input)
                /\ Cardinality(NamesOf(kept)) = Len(kept)

\* C20 witness: of four non-system messages the oldest is dropped and two of
\* the last three are kept.
C20_Witness ==
    \E c \in DOMAIN calls :
        /\ OverBudgetChat(calls[c])
        /\ Len(SelectSeq(calls[c].messages.val, IsNotSystem)) = 4
        /\ NamesOf(calls[c].request.messages) = {2, 3}

\* The names of the non-system messages of the input, oldest first.
OtherNames(messages) ==
    LET others == SelectSeq(messages, IsNotSystem)
    IN  [i \in DOMAIN others |-> others[i].name]

RetryLimit == 6

RetryFailures(at) == {AxiosTimeout(at), HttpError(at)}

RetryReply == <<"{", "a", "}", NL>>

RetryCalls ==
    {NewCall("chat", "phi", Present(<<UserMessage(ShortText)>>), Absent, FALSE, 1),
     NewCall("text", "phi", Absent, Present(ShortText), FALSE, 1),
     NewCall("list", "phi", Absent, Absent, FALSE, 1)}

InitRetry ==
    /\ requests = <<>>
    /\ impl \in {"ts", "js"}
    /\ maxRetries \in 1..RetryLimit
    /\ timeout = DefaultTimeout
    /\ calls \in {[c \in CallIds |-> x] : x \in RetryCalls}

NextRetry ==
    \/ \E c \in DOMAIN calls : Begin(c)
    \/ \E c \in DOMAIN calls : Invoke(c)
    \/ \E c \in DOMAIN calls : SucceedStream(c, RetryReply)
    \/ \E c \in DOMAIN calls : \E content \in PlainReplies : SucceedPlain(c, content)
    \/ \E c \in DOMAIN calls :
          \E error \in RetryFailures(calls[c].invocations) : Fail(c, error)
    \/ \E c \in DOMAIN calls : Wake(c)
    \/ \E c \in DOMAIN calls : \E n \in 1..Len(calls[c].stream) : StreamChunk(c, n)
    \/ \E c \in DOMAIN calls : StreamEnd(c)
    \/ \E c \in DOMAIN calls : StreamFail(c)

RetrySpec == InitRetry /\ [][NextRetry]_vars

\* C22: the a-th failed attempt, a < maxRetries, is followed by a sleep of
\* exactly min(1000 * 2^(a-1), 10000) ms: the sleeps made so far are one per
\* failed attempt but the last possible one, non-decreasing and at most
\* 10000 ms, the call sleeps only after a failure that leaves attempts, and
\* the failure of attempt maxRetries ends the call without a sleep.
C22_BackoffDelays ==
    \A c \in DOMAIN calls :
        LET call == calls[c]
            failed == Len(call.errors)
        IN  /\ Len(call.delays) = Min(failed, maxRetries - 1)
            /\ \A a \in 1..Len(call.delays) :
                  /\ call.delays[a] =
                        IF 1000 * Pow(2, a - 1) < 10000 THEN 1000 * Pow(2, a - 1)
                        ELSE 10000
                  /\ call.delays[a] <= 10000
                  /\ a > 1 => call.delays[a - 1] <= call.delays[a]
            /\ call.pc = "sleep" =>
                  failed = call.attempt /\ call.attempt < maxRetries
            /\ failed = maxRetries => call.pc = "done" /\ call.inflight = 0

\* Six attempts have failed: five sleeps, the fifth at the cap, none after
\* the sixth failure.
C22_Witness ==
    \E c \in DOMAIN calls :
        /\ Len(calls[c].errors) = 6
        /\ calls[c].delays = <<1000, 2000, 4000, 8000, 10000>>
        /\ calls[c].pc = "done"

\* C23: attempt number a of every call that goes through retryRequest (chat,
\* generate, model listing) is issued with the per-request timeout
\* timeout * 1.5^(a-1); the timeouts issued are fractions <<num, den>>.
C23_ProgressiveTimeouts ==
    \A c \in DOMAIN calls :
        \A a \in 1..Len(calls[c].tmos) :
            calls[c].tmos[a][1] * Pow(2, a - 1) =
                timeout * Pow(3, a - 1) * calls[c].tmos[a][2]

\* The backend's answer to the call was read through the stream loop.
Aggregated(call) == call.pc = "stream" \/ call.reply # <<>>

\* C24: the stream flag a chat call sends to the backend is the request's
\* stream value, and the backend's answer is read through the stream loop
\* exactly when the request asked for streaming.
C24_StreamFlagHonoured ==
    \A c \in DOMAIN calls :
        calls[c].kind = "chat" =>
            /\ calls[c].request.sent =>
                  calls[c].request.stream = calls[c].streamFlag
            /\ calls[c].successes >= 1 =>
                  (Aggregated(calls[c]) <=> calls[c].streamFlag)

(***************************************************************************)
(* The HTTP layer over a completion call: request validation, the          *)
(* controller and the error handler.                                       *)
(***************************************************************************)
\* schema.validate(req.body) of chatCompletionSchema / textCompletionSchema:
\* messages is required with at least one item, prompt is a required
\* (non-empty) string.
BodyValid(call) ==
    CASE call.kind = "chat" -> call.messages.present /\ Len(call.messages.val) >= 1
      [] call.kind = "text" -> call.prompt.present /\ call.prompt.val # <<>>
      [] OTHER -> TRUE

\* errors.lib convertToAppError: an AppError as it is, anything else as
\* AppError 500 INTERNAL_ERROR.
convertToAppError(error, corr) ==
    IF IsAppError(error) THEN error
    ELSE AppError(error.msg, 500, "INTERNAL_ERROR", corr)

\* errorHandlerMiddleware: res.status(appError.statusCode || 500)
errorHandlerMiddleware(error, corr) ==
    LET appError == convertToAppError(error, corr)
    IN  IF appError.status # 0 THEN appError.status ELSE 500

\* The status of the HTTP response to the request of a finished completion
\* call.  TypeScript: validationMiddleware hands a ValidationError (400) and
\* asyncHandler the service's error to errorHandlerMiddleware.  JavaScript:
\* the controller answers 400 when validate fails and 500 in its catch.
ResponseStatus(call) ==
    IF ~BodyValid(call) THEN 400
    ELSE IF call.outcome.type = "ok" THEN 200
    ELSE IF impl = "ts" THEN errorHandlerMiddleware(call.outcome.err, call.corr)
    ELSE 500

\* C25: a completion request that fails is answered with status 400 when
\* its body is invalid and with 502 or 504 when the backend call failed
\* (the TimeoutError after the last attempt and the ExternalServiceError
\* included).
C25_ErrorStatus ==
    \A c \in DOMAIN calls :
        LET call == calls[c]
        IN  (call.kind \in {"chat", "text"} /\ call.pc = "done") =>
                /\ ~BodyValid(call) => ResponseStatus(call) = 400
                /\ (BodyValid(call) /\ call.outcome.type = "error") =>
                      ResponseStatus(call) \in {502, 504}

\* C26: retryRequest retries after every failed attempt, whatever failed,
\* while attempts remain: it throws only after maxRetries failed
\* invocations, a call with fewer failures is sleeping, about to invoke,
\* invoking or has got a response, and what it throws is the last raw error
\* or the TimeoutError made from it.
C26_RetriesWhateverFailed ==
    \A c \in DOMAIN calls :
        LET call == calls[c]
            failed == Len(call.errors)
        IN  /\ call.retry.type = "threw" =>
                  /\ failed = maxRetries /\ call.invocations = maxRetries
                  /\ \/ call.retry.err = call.errors[failed]
                     \/ call.retry.err.cls = "TimeoutError"
            /\ (failed >= 1 /\ failed < maxRetries) =>
                  \/ call.pc = "sleep" /\ call.attempt = failed
                  \/ call.pc \in {"attempt", "inflight"} /\ call.attempt = failed + 1
                  \/ call.retry.type = "returned" /\ call.invocations = failed + 1

\* An HTTP error response, then a refused connection, then a timeout: each
\* of the first two was followed by another attempt.
C26_Witness ==
    \E c \in DOMAIN calls :
        /\ Len(calls[c].errors) = 3
        /\ calls[c].errors[1].resp
        /\ calls[c].errors[2].code = "ECONNREFUSED"
        /\ TimedOut(calls[c].errors[3])
        /\ calls[c].invocations = 3
        /\ calls[c].retry.type = "threw"

(***************************************************************************)
(* retryRequest under the scheduling of the event loop: an attempt that is *)
(* due goes out, an invocation of requestFn that is in flight settles (it  *)
(* resolves or rejects), and a backoff timer that was set fires.           *)
(***************************************************************************)
\* `await requestFn(...)` settles: it resolves or rejects.
Settle(c) ==
    \/ SucceedStream(c, RetryReply)
    \/ \E content \in PlainReplies : SucceedPlain(c, content)
    \/ \E error \in RetryFailures(calls[c].invocations) : Fail(c, error)

RetryFairness ==
    /\ WF_vars(\E c \in CallIds : Invoke(c))
    /\ WF_vars(\E c \in CallIds : Settle(c))
    /\ WF_vars(\E c \in CallIds : Wake(c))

RetryFairSpec == InitRetry /\ [][NextRetry]_vars /\ RetryFairness

\* C27: with maxRetries >= 1, every call of retryRequest (the call has
\* reached the loop) ends, in a returned response or a thrown error, and
\* when it has ended requestFn was invoked at least once and at most
\* maxRetries times.
C27_RetryTerminates ==
    \A c \in CallIds :
        /\ (calls[c].pc = "attempt" /\ calls[c].attempt = 1)
              ~> (calls[c].retry.type \in {"returned", "threw"})
        /\ [](calls[c].retry.type \in {"returned", "threw"} =>
                 /\ calls[c].invocations >= 1
                 /\ calls[c].invocations <= maxRetries
                 /\ calls[c].inflight = 0)

\* retryRequest has ended after using all of several attempts, with a
\* response from the last one.
C27_Witness ==
    \E c \in DOMAIN calls :
        /\ maxRetries >= 2
        /\ calls[c].invocations = maxRetries
        /\ calls[c].retry.type = "returned"
        /\ Len(calls[c].errors) = maxRetries - 1

\* A finished chat call whose backend answer was a stream.
StreamedAndDone(call) ==
    call.kind = "chat" /\ call.pc = "done" /\ call.retry.type = "returned"

\* The call failed in the stream loop all-or-nothing: an
\* ExternalServiceError, no content, and the request was not made again.
FailedWhole(call) ==
    /\ call.outcome.type = "error"
    /\ call.outcome.err.cls = "ExternalServiceError"
    /\ call.outcome.content = <<>>
    /\ call.invocations = Len(call.errors) + 1
    /\ call.inflight = 0

\* C28 as stated: a streamed chat call fails whole when any complete line
\* of the reply, an empty one included, is not valid JSON or when the
\* stream breaks before its end.
C28_Original ==
    \A c \in DOMAIN calls :
        StreamedAndDone(calls[c]) =>
            LET lines == CompleteLines(calls[c].reply)
            IN  /\ (\/ \E i \in 1..Len(lines) : ~JSONparse(lines[i]).ok
                    \/ calls[c].stream # <<>>) => FailedWhole(calls[c])
                /\ calls[c].outcome.type = "error" => FailedWhole(calls[c])

\* C28 (amended): a streamed chat call fails whole when any non-empty
\* complete line of the reply is not valid JSON or when the stream breaks
\* before its end; empty lines are skipped.  A call that fails does so with
\* an ExternalServiceError and no content, without another request.
C28_AllOrNothing ==
    \A c \in DOMAIN calls :
        StreamedAndDone(calls[c]) =>
            /\ (\/ ~AllJSON(CompleteLines(calls[c].reply))
                \/ calls[c].stream # <<>>) => FailedWhole(calls[c])
            /\ calls[c].outcome.type = "error" => FailedWhole(calls[c])

\* The content of a first line was accumulated when the second line failed
\* to parse: the call failed and returned none of it.
C28_Witness ==
    \E c \in DOMAIN calls :
        /\ calls[c].reply = <<"{", "a", "}", NL, "{", "a", NL>>
        /\ StreamedAndDone(calls[c])
        /\ calls[c].fullContent = <<"a">>
        /\ calls[c].stream = <<>>
        /\ FailedWhole(calls[c])

\* C29: processLongMessages never makes a message longer: the content of
\* every message of its output is at most as long as the content of the
\* input message it was made from.
C29_NeverLonger ==
    \A c \in DOMAIN calls :
        (Fitted(calls[c]) /\ calls[c].kind = "chat") =>
            LET input == calls[c].messages.val
                out == calls[c].request.messages
            IN  \A i \in DOMAIN out : \A j \in DOMAIN input :
                    input[j].name = out[i].name =>
                        RLen(out[i].content) <= RLen(input[j].content)

\* C30 as stated: processLongMessages preserves the order of the
\* conversation: the messages of its output, system messages among the
\* others included, follow one another as the messages they were made from
\* do in the input.
C30_KeepsOrder ==
    \A c \in DOMAIN calls :
        (Fitted(calls[c]) /\ calls[c].kind = "chat") =>
            LET out == calls[c].request.messages
            IN  \A i, j \in DOMAIN out : i < j => out[i].name < out[j].name

\* The names of a sequence of messages are in input order.
InInputOrder(messages) ==
    \A i, j \in DOMAIN messages : i < j => messages[i].name < messages[j].name

\* C30 (amended): processLongMessages preserves the input order among the
\* system messages and among the other messages; from a sequence over the
\* budget the system messages come first, whatever their place in the
\* input, and a sequence within the budget is returned as it is.
C30_KeepsOrderWithinRoles ==
    \A c \in DOMAIN calls :
        (Fitted(calls[c]) /\ calls[c].kind = "chat") =>
            LET out == calls[c].request.messages
                systems == SelectSeq(out, IsSystem)
                others == SelectSeq(out, IsNotSystem)
            IN  /\ InInputOrder(systems)
                /\ InInputOrder(others)
                /\ IF OverBudgetChat(calls[c]) THEN out = systems \o others
                   ELSE out = calls[c].messages.val

\* A system message between two user messages was moved to the front and
\* both user messages were kept behind it, in their order.
C30_Witness ==
    \E c \in DOMAIN calls :
        /\ OverBudgetChat(calls[c])
        /\ Len(calls[c].messages.val) = 3
        /\ Len(calls[c].request.messages) = 3
        /\ calls[c].request.messages[1].name = 2
        /\ calls[c].request.messages[2].name = 1
        /\ calls[c].request.messages[3].name = 3

=============================================================================
